---- MODULE Spec2Model ----
(***************************************************************************)
(* VibeNet (src/app.py): a Flask application over one SQLite database.     *)
(* Every request gets its own connection (get_db, per application          *)
(* context) and the development server is threaded, so handlers run        *)
(* concurrently.  Python's sqlite3 module runs a SELECT outside any        *)
(* transaction and opens one at the first INSERT/UPDATE/DELETE, which      *)
(* lasts until commit(): a handler is therefore a chain of separate reads  *)
(* followed by one atomic write block per commit.  The model has one       *)
(* action per such step.                                                   *)
(***************************************************************************)
EXTENDS Integers, Sequences, FiniteSets, TLC

VARIABLES
    users,           \* table users: email -> [name, email, password, bio, watch_hours, earnings]
    posts,           \* table posts: id -> [author_email, reactions]
    post_seq,        \* posts.id AUTOINCREMENT: the largest id ever given
    user_reactions,  \* table user_reactions: set of rows
    followers,       \* table followers: <<user_email, follower_email>> -> number of rows
    notifications,   \* table notifications, in id order
    req,             \* the requests in flight: slot -> handler position and locals
    last,            \* the response of the request that completed last
    threaded,        \* whether the server handles requests concurrently
    ads,             \* table ads, in id order: [owner_email, budget, impressions]
    messages         \* table messages, in id order: [sender, recipient]

vars == <<users, posts, post_seq, user_reactions, followers, notifications, req, last,
          threaded, ads, messages>>

(* ------------------------------ bounds -------------------------------- *)
NumReq == 2      \* handlers that may be in flight at once
MaxCalls == 3    \* requests served in one behaviour
MaxPosts == 2    \* rows ever inserted into posts
MaxAds == 2      \* rows ever inserted into ads
Backlog == 19    \* messages Alice has already received when a busy behaviour starts

Req == 1..NumReq
PostIds == 1..MaxPosts

(* ------------------------------ values -------------------------------- *)
Alice == "alice@example.com"
Bob == "bob@example.com"
Emails == {Alice, Bob}
Viewers == Emails \cup {""}          \* currentUser ? currentUser.email : ''
NONE == "<None>"                     \* Python's None
Nobody == "nobody@example.com"       \* an address no account has
Recipients == Emails \cup {Nobody}   \* data.get("to"), data.get("email"): any address
Buttons == {"thumbs", "heart"}       \* two of the three reaction buttons of the page
EmojiArgs == Buttons \cup {""}       \* data.get("emoji"): a button's emoji or an empty string

\* Python truthiness of an Optional[str]
Truthy(s) == s # NONE /\ s # ""

\* dict.get(k, 0) and d[k] = v on a dict held as a function
Get(d, k) == IF k \in DOMAIN d THEN d[k] ELSE 0
Put(d, k, v) == [x \in (DOMAIN d) \cup {k} |-> IF x = k THEN v ELSE d[x]]
Max0(n) == IF n > 0 THEN n ELSE 0

\* the reactions_json of a new post: the three buttons ("thumbs", "heart", "laugh"
\* stand for the emoji characters), each at 0
DefaultReactions == [e \in {"thumbs", "heart", "laugh"} |-> 0]
EmptyDict == [e \in {} |-> 0]

RECURSIVE SumOver(_, _)
SumOver(d, S) == IF S = {} THEN 0
                 ELSE LET k == CHOOSE x \in S : TRUE IN d[k] + SumOver(d, S \ {k})
SumReactions(d) == SumOver(d, DOMAIN d)

(* ------------------------------ e-mails ------------------------------- *)
\* an e-mail address as a client types it is a sequence of characters; the key of a
\* row of users is the string these characters spell
AliceChars == <<"a", "l", "i", "c", "e", "@", "e", "x", "a", "m", "p", "l", "e", ".", "c", "o", "m">>
BobChars == <<"b", "o", "b", "@", "e", "x", "a", "m", "p", "l", "e", ".", "c", "o", "m">>

RECURSIVE Str(_)
Str(cs) == IF cs = <<>> THEN "" ELSE Head(cs) \o Str(Tail(cs))

UpperAlpha == <<"A", "B", "C", "D", "E", "F", "G", "H", "I", "J", "K", "L", "M",
                "N", "O", "P", "Q", "R", "S", "T", "U", "V", "W", "X", "Y", "Z">>
LowerAlpha == <<"a", "b", "c", "d", "e", "f", "g", "h", "i", "j", "k", "l", "m",
                "n", "o", "p", "q", "r", "s", "t", "u", "v", "w", "x", "y", "z">>
Whitespace == {" ", "\t", "\n"}

\* str.lower()
LowerChar(c) == IF \E i \in 1..26 : UpperAlpha[i] = c
                THEN LowerAlpha[CHOOSE i \in 1..26 : UpperAlpha[i] = c]
                ELSE c
Lower(cs) == [i \in 1..Len(cs) |-> LowerChar(cs[i])]

\* str.strip()
RECURSIVE LStrip(_)
LStrip(cs) == IF cs # <<>> /\ Head(cs) \in Whitespace THEN LStrip(Tail(cs)) ELSE cs
RECURSIVE RStrip(_)
RStrip(cs) == IF cs # <<>> /\ cs[Len(cs)] \in Whitespace
              THEN RStrip(SubSeq(cs, 1, Len(cs) - 1)) ELSE cs
Strip(cs) == RStrip(LStrip(cs))

\* a handler that uses the address as it was typed
AsTyped(cs) == cs

\* request.form.get("email", "").strip().lower()
NormalizeEmail(cs) == Lower(Strip(cs))

(* ------------------------------ tables -------------------------------- *)
\* fetchone() on an empty result
NoRow == [author_email |-> NONE, reactions |-> EmptyDict]

\* INSERT INTO users (name,email,password,profile_pic): the other columns take their
\* defaults (bio '', watch_hours 0, earnings 0)
NewUser(name, email, password) ==
    [name |-> name, email |-> email, password |-> password, bio |-> "",
     watch_hours |-> 0, earnings |-> 0]

\* SELECT emoji FROM user_reactions WHERE user_email=? AND post_id=?
ReactionRows(ur, user_email, post_id) ==
    {x \in ur : x.user_email = user_email /\ x.post_id = post_id}

\* DELETE FROM user_reactions WHERE user_email=? AND post_id=?
DeleteReactions(ur, user_email, post_id) == ur \ ReactionRows(ur, user_email, post_id)

\* an insert into a user_reactions table declared without UNIQUE(user_email, post_id)
InsertPlain(ur, user_email, post_id, emoji) ==
    ur \cup {[user_email |-> user_email, post_id |-> post_id, emoji |-> emoji]}

\* INSERT OR REPLACE under UNIQUE(user_email, post_id): the conflicting row goes first
InsertOrReplace(ur, user_email, post_id, emoji) ==
    DeleteReactions(ur, user_email, post_id)
        \cup {[user_email |-> user_email, post_id |-> post_id, emoji |-> emoji]}

\* a lookup that falls back on the oldest post when the id is not stored
PostRowOrFirst(ps, post_id) == IF post_id \in DOMAIN ps THEN ps[post_id] ELSE ps[1]

\* SELECT ... FROM posts WHERE id=? and fetchone(): the row, or None
PostRow(ps, post_id) == IF post_id \in DOMAIN ps THEN ps[post_id] ELSE NoRow

\* UPDATE posts SET reactions_json=? WHERE id=?
UpdateReactions(ps, post_id, reactions) ==
    IF post_id \in DOMAIN ps THEN [ps EXCEPT ![post_id].reactions = reactions] ELSE ps

\* an insert that stores the notification twice
NotifyTwice(ns, user_email, text) ==
    Append(Append(ns, [user_email |-> user_email, text |-> text]),
           [user_email |-> user_email, text |-> text])

\* INSERT INTO notifications (user_email,text,timestamp)
Notify(ns, user_email, text) == Append(ns, [user_email |-> user_email, text |-> text])

\* f"{emoji} reaction on your post", f"Your video was watched by {viewer}"
ReactionText(e) == e \o " reaction on your post"
WatchText(v) == "Your video was watched by " \o v
\* f"New message from {sender}"
MessageText(sender) == "New message from " \o sender

\* the k-th largest element of a set of row ids (ORDER BY id DESC)
NthDesc(ids, k) == CHOOSE i \in ids : Cardinality({j \in ids : j > i}) = k - 1

(* ----------------------------- requests ------------------------------- *)
Idle == [pc |-> "idle", user |-> "", other |-> "", post_id |-> 0, emoji |-> "",
         row |-> NoRow, prev_emoji |-> NONE]
\* last.wrote tells whether the handler committed a change of reactions or edges
\* last.raw and last.password are the e-mail as typed and the secret of a signup or login
NoResponse == [n |-> 0, op |-> "", user |-> "", other |-> "", post_id |-> 0, emoji |-> "",
               status |-> 0, body |-> EmptyDict, wrote |-> FALSE, raw |-> <<>>,
               password |-> ""]

InFlight == {r \in Req : req[r].pc # "idle"}
\* a request is taken by the first free slot (the slots are interchangeable threads)
CanStart(r) ==
    /\ req[r].pc = "idle"
    /\ \A q \in Req : q < r => req[q].pc # "idle"
    /\ threaded \/ InFlight = {}
    /\ last.n + Cardinality(InFlight) < MaxCalls

\* jsonify(...): the handler returns and its slot is free again
Respond(r, op, status, body) ==
    /\ last' = [n |-> last.n + 1, op |-> op, user |-> req[r].user, other |-> req[r].other,
                post_id |-> req[r].post_id, emoji |-> req[r].emoji,
                status |-> status, body |-> body,
                wrote |-> req[r].pc \notin {"react_prev", "watch_select"},
                raw |-> <<>>, password |-> ""]
    /\ req' = [req EXCEPT ![r] = Idle]

\* the same, for a handler that answers in the step that receives the request
RespondNow(r, op, user, other, post_id, emoji, status, body) ==
    /\ last' = [n |-> last.n + 1, op |-> op, user |-> user, other |-> other,
                post_id |-> post_id, emoji |-> emoji, status |-> status, body |-> body,
                wrote |-> status = 200, raw |-> <<>>, password |-> ""]
    /\ req' = req

(* ------------------------------- init --------------------------------- *)
\* init_db() on an empty file, then seed_sample(): Alice, Bob and Alice's welcome post
Seeded ==
    /\ users = (Alice :> NewUser("Alice", AliceChars, "alice"))
                  @@ (Bob :> NewUser("Bob", BobChars, "bob"))
    /\ posts = [i \in {1} |-> [author_email |-> Alice, reactions |-> DefaultReactions]]
    /\ post_seq = 1
    /\ user_reactions = {}
    /\ followers = [p \in Emails \X Emails |-> 0]
    /\ notifications = <<>>
    /\ req = [r \in Req |-> Idle]
    /\ last = NoResponse
    /\ ads = <<>>
    /\ messages = <<>>

\* app.run(...): werkzeug's server is threaded unless told otherwise
Init == Seeded /\ threaded = TRUE

\* the same application served one request at a time (a single-threaded worker)
InitSerial == Seeded /\ threaded = FALSE

(* ----------------------- POST /api/signup, /api/login ----------------- *)
\* what clients send: a new address in two spellings, Alice's address with a capital,
\* blanks only; a missing, a new and an existing password
CarolChars == <<"c", "@", "x">>
TypedEmails == {<<" ">>, CarolChars, <<" ", "C", "@", "X", "\t">>, <<"A">> \o Tail(AliceChars)}
Passwords == {"", "pw", "alice"}

\* a users table whose email column is not UNIQUE never reports a conflict
EmailTakenNever(us, email) == FALSE

\* email TEXT UNIQUE: the INSERT raises sqlite3.IntegrityError when the address is stored
EmailTaken(us, email) == email \in DOMAIN us

\* the user object the handlers return: no password column
UserView(row) == [name |-> row.name, email |-> row.email, bio |-> row.bio,
                  watch_hours |-> row.watch_hours, earnings |-> row.earnings]

\* the response of a signup or login
AuthResponse(op, email, typed, password, status, body) ==
    [NoResponse EXCEPT !.n = last.n + 1, !.op = op, !.user = email, !.raw = typed,
                       !.password = password, !.status = status, !.body = body,
                       !.wrote = (op = "signup" /\ status = 200)]

\* POST /api/signup
ApiSignup(r, name, typed, password) ==
    /\ CanStart(r)
    /\ LET email == NormalizeEmail(typed)
       IN IF email = <<>> \/ ~Truthy(password)
          THEN /\ users' = users
               /\ last' = AuthResponse("signup", Str(email), typed, password, 400,
                                       "email+password required")
          ELSE IF EmailTaken(users, Str(email))
          THEN /\ users' = users
               /\ last' = AuthResponse("signup", Str(email), typed, password, 400,
                                       "User exists")
          ELSE /\ users' = (Str(email) :> NewUser(name, email, password)) @@ users
               /\ last' = AuthResponse("signup", Str(email), typed, password, 200,
                                       UserView(NewUser(name, email, password)))
    /\ UNCHANGED <<posts, post_seq, user_reactions, followers, notifications, req, threaded, ads, messages>>

\* POST /api/login: SELECT ... FROM users WHERE email=? AND password=?
ApiLogin(r, typed, password) ==
    /\ CanStart(r)
    /\ LET email == Str(NormalizeEmail(typed))
       IN IF email \in DOMAIN users /\ users[email].password = password
          THEN last' = AuthResponse("login", email, typed, password, 200,
                                    UserView(users[email]))
          ELSE last' = AuthResponse("login", email, typed, password, 401,
                                    "Invalid credentials")
    /\ UNCHANGED <<users, posts, post_seq, user_reactions, followers, notifications, req,
                   threaded, ads, messages>>

\* the same server after Bob has sent Alice Backlog messages: the messages table and
\* her notifications hold one row for each
InitBusy ==
    /\ users = (Alice :> NewUser("Alice", AliceChars, "alice"))
                  @@ (Bob :> NewUser("Bob", BobChars, "bob"))
    /\ posts = [i \in {1} |-> [author_email |-> Alice, reactions |-> DefaultReactions]]
    /\ post_seq = 1
    /\ user_reactions = {}
    /\ followers = [p \in Emails \X Emails |-> 0]
    /\ notifications = [i \in 1..Backlog |-> [user_email |-> Alice, text |-> MessageText(Bob)]]
    /\ messages = [i \in 1..Backlog |-> [sender |-> Bob, recipient |-> Alice]]
    /\ req = [r \in Req |-> Idle]
    /\ last = NoResponse
    /\ ads = <<>>
    /\ threaded = TRUE

(* --------------------------- POST /api/posts -------------------------- *)
ApiPostsPost(r, author_email) ==
    /\ CanStart(r)
    /\ post_seq < MaxPosts
    /\ post_seq' = post_seq + 1
    /\ posts' = [i \in (DOMAIN posts) \cup {post_seq + 1} |->
                    IF i = post_seq + 1
                    THEN [author_email |-> author_email, reactions |-> DefaultReactions]
                    ELSE posts[i]]
    /\ RespondNow(r, "posts", author_email, "", post_seq + 1, "", 200, DefaultReactions)
    /\ UNCHANGED <<users, user_reactions, followers, notifications, threaded, ads, messages>>

(* --------------------------- POST /api/react -------------------------- *)
\* SELECT id,reactions_json,author_email FROM posts WHERE id=?
ReactSelectPost(r, user_email, post_id, emoji) ==
    /\ CanStart(r)
    /\ IF PostRow(posts, post_id) # NoRow
       THEN /\ req' = [req EXCEPT ![r] = [Idle EXCEPT !.pc = "react_prev",
                           !.user = user_email, !.post_id = post_id, !.emoji = emoji,
                           !.row = PostRow(posts, post_id)]]
            /\ last' = last
       ELSE RespondNow(r, "react", user_email, "", post_id, emoji, 404, EmptyDict)
    /\ UNCHANGED <<users, posts, post_seq, user_reactions, followers, notifications, threaded, ads, messages>>

\* a handler without the same-reaction test
SameReactionNever(prev_emoji, emoji) == FALSE

\* if prev_emoji == emoji: already same reaction -> do nothing
SameReaction(prev_emoji, emoji) == prev_emoji = emoji

\* SELECT emoji FROM user_reactions ...; prev_emoji == emoji returns the counts read above
ReactSelectPrev(r) ==
    /\ req[r].pc = "react_prev"
    /\ LET rows == ReactionRows(user_reactions, req[r].user, req[r].post_id)
       IN \E prev_emoji \in (IF rows = {} THEN {NONE} ELSE {x.emoji : x \in rows}) :
            IF SameReaction(prev_emoji, req[r].emoji)
            THEN Respond(r, "react", 200, req[r].row.reactions)
            ELSE /\ req' = [req EXCEPT ![r].pc = "react_write", ![r].prev_emoji = prev_emoji]
                 /\ last' = last
    /\ UNCHANGED <<users, posts, post_seq, user_reactions, followers, notifications, threaded, ads, messages>>

\* the reaction counts the handler writes back (lines 734-739)
NewReactions(reactions, prev_emoji, emoji) ==
    LET dec == IF Truthy(prev_emoji)
               THEN Put(reactions, prev_emoji, Max0(Get(reactions, prev_emoji) - 1))
               ELSE reactions
    IN Put(dec, emoji, Get(dec, emoji) + 1)

\* the user_reactions table the handler leaves (lines 734-738)
NewUserReactions(ur, user_email, post_id, prev_emoji, emoji) ==
    InsertOrReplace(IF Truthy(prev_emoji) THEN DeleteReactions(ur, user_email, post_id) ELSE ur,
                    user_email, post_id, emoji)

\* DELETE, INSERT OR REPLACE, UPDATE posts, commit: one transaction
ReactWrite(r) ==
    /\ req[r].pc = "react_write"
    /\ LET reactions == NewReactions(req[r].row.reactions, req[r].prev_emoji, req[r].emoji)
       IN /\ user_reactions' = NewUserReactions(user_reactions, req[r].user, req[r].post_id,
                                                req[r].prev_emoji, req[r].emoji)
          /\ posts' = UpdateReactions(posts, req[r].post_id, reactions)
          /\ IF req[r].row.author_email # req[r].user
             THEN /\ req' = [req EXCEPT ![r].pc = "react_notify", ![r].row.reactions = reactions]
                  /\ last' = last
             ELSE Respond(r, "react", 200, reactions)
    /\ UNCHANGED <<users, post_seq, followers, notifications, threaded, ads, messages>>

\* INSERT INTO notifications, commit (post_author != user_email)
ReactNotify(r) ==
    /\ req[r].pc = "react_notify"
    /\ notifications' = Notify(notifications, req[r].row.author_email,
                               ReactionText(req[r].emoji))
    /\ Respond(r, "react", 200, req[r].row.reactions)
    /\ UNCHANGED <<users, posts, post_seq, user_reactions, followers, threaded, ads, messages>>

\* the handler, for callers U sending emoji E
ReactBy(r, U, E) ==
    \/ \E u \in U, p \in PostIds, e \in E : ReactSelectPost(r, u, p, e)
    \/ ReactSelectPrev(r)
    \/ ReactWrite(r)
    \/ ReactNotify(r)

ApiReactPost(r) == ReactBy(r, Emails, EmojiArgs)

\* GET /api/user_reaction?user=&post_id=
ApiUserReaction(user, post_id) ==
    LET rows == ReactionRows(user_reactions, user, post_id)
    IN IF rows = {} THEN NONE ELSE (CHOOSE x \in rows : TRUE).emoji

(* --------------------------- POST /api/follow ------------------------- *)
\* SELECT id FROM followers WHERE user_email=? AND follower_email=?
FollowerRows(fs, target, follower) == fs[<<target, follower>>]

\* DELETE FROM followers WHERE user_email=? AND follower_email=?
DeleteFollower(fs, target, follower) == [fs EXCEPT ![<<target, follower>>] = 0]

\* INSERT INTO followers (user_email,follower_email): the table has no UNIQUE constraint
InsertFollower(fs, target, follower) == [fs EXCEPT ![<<target, follower>>] = @ + 1]

\* lines 792-798: the handler takes any follower and target, then looks the pair up
FollowSelect(r, follower, target) ==
    /\ CanStart(r)
    /\ req' = [req EXCEPT ![r] = [Idle EXCEPT
                  !.pc = IF FollowerRows(followers, target, follower) > 0
                         THEN "follow_delete" ELSE "follow_insert",
                  !.user = follower, !.other = target]]
    /\ UNCHANGED <<users, posts, post_seq, user_reactions, followers, notifications, last, threaded, ads, messages>>

\* lines 799-801
FollowDelete(r) ==
    /\ req[r].pc = "follow_delete"
    /\ followers' = DeleteFollower(followers, req[r].other, req[r].user)
    /\ Respond(r, "follow", 200, "unfollowed")
    /\ UNCHANGED <<users, posts, post_seq, user_reactions, notifications, threaded, ads, messages>>

\* lines 803-806
FollowInsert(r) ==
    /\ req[r].pc = "follow_insert"
    /\ followers' = InsertFollower(followers, req[r].other, req[r].user)
    /\ notifications' = Notify(notifications, req[r].other,
                               req[r].user \o " started following you")
    /\ Respond(r, "follow", 200, "followed")
    /\ UNCHANGED <<users, posts, post_seq, user_reactions, threaded, ads, messages>>

ApiFollow(r) ==
    \/ \E f \in Emails, t \in Emails : FollowSelect(r, f, t)
    \/ FollowDelete(r)
    \/ FollowInsert(r)

\* GET /api/is_following?f=&t=
ApiIsFollowing(f, t) == FollowerRows(followers, t, f) > 0

\* GET /api/monetization/<email>: SELECT COUNT(1) FROM followers WHERE user_email=?
RECURSIVE CountRows(_, _, _)
CountRows(fs, target, S) ==
    IF S = {} THEN 0
    ELSE LET f == CHOOSE x \in S : TRUE
         IN FollowerRows(fs, target, f) + CountRows(fs, target, S \ {f})
MonetizationFollowers(email) ==
    IF email \in DOMAIN users THEN CountRows(followers, email, Emails) ELSE 0

\* "Eligible" if followers >= 5000 and watch_hours >= 1000000 else "Not Eligible"
MonetizationStatus(n_followers, watch_hours) ==
    IF n_followers >= 5000 /\ watch_hours >= 1000000 THEN "Eligible" ELSE "Not Eligible"

\* GET /api/monetization/<email>: the whole answer
ApiMonetization(email) ==
    IF email \notin DOMAIN users
    THEN [followers |-> 0, watch_hours |-> 0, earnings |-> 0, status |-> "Not Eligible"]
    ELSE [followers |-> MonetizationFollowers(email),
          watch_hours |-> users[email].watch_hours,
          earnings |-> users[email].earnings,
          status |-> MonetizationStatus(MonetizationFollowers(email),
                                        users[email].watch_hours)]

(* --------------------------- POST /api/watch -------------------------- *)
\* the same update without its WHERE clause
AddWatchHourToAll(us, author) == [e \in DOMAIN us |-> [us[e] EXCEPT !.watch_hours = @ + 1]]

\* UPDATE users SET watch_hours = watch_hours + 1 WHERE email=?
AddWatchHour(us, author) ==
    IF author \in DOMAIN us THEN [us EXCEPT ![author].watch_hours = @ + 1] ELSE us

\* lines 818-831: the author's row is updated whoever the viewer is
WatchUpdate(r, viewer, post_id) ==
    /\ CanStart(r)
    /\ IF PostRow(posts, post_id) # NoRow
       THEN /\ users' = AddWatchHour(users, PostRow(posts, post_id).author_email)
            /\ notifications' = Notify(notifications, PostRow(posts, post_id).author_email,
                                       WatchText(viewer))
            /\ req' = [req EXCEPT ![r] = [Idle EXCEPT !.pc = "watch_select",
                           !.user = viewer, !.post_id = post_id,
                           !.other = PostRow(posts, post_id).author_email]]
            /\ last' = last
       ELSE /\ RespondNow(r, "watch", viewer, "", post_id, "", 404, 0)
            /\ UNCHANGED <<users, notifications>>
    /\ UNCHANGED <<posts, post_seq, user_reactions, followers, threaded, ads, messages>>

\* lines 832-834: SELECT watch_hours FROM users WHERE email=?
WatchSelect(r) ==
    /\ req[r].pc = "watch_select"
    /\ Respond(r, "watch", 200, users[req[r].other].watch_hours)
    /\ UNCHANGED <<users, posts, post_seq, user_reactions, followers, notifications, threaded, ads, messages>>

ApiWatch(r) ==
    \/ \E v \in Viewers, p \in PostIds : WatchUpdate(r, v, p)
    \/ WatchSelect(r)

(* -------------------------- deleting a post --------------------------- *)
\* src/app.py serves GET and POST on /api/posts only; deletePost is modelled from
\* the specification: NotFound, Forbidden unless requester == post.author, Success.
\* a deletePost without the ownership test
DeleteAllowedAnyone(requester, author_email) == TRUE

DeleteAllowed(requester, author_email) == requester = author_email

DeletePost(r, requester, post_id) ==
    /\ CanStart(r)
    /\ IF post_id \notin DOMAIN posts
       THEN /\ RespondNow(r, "delete", requester, "", post_id, "", 404, "NotFound")
            /\ posts' = posts
       ELSE IF DeleteAllowed(requester, posts[post_id].author_email)
       THEN /\ RespondNow(r, "delete", requester, "", post_id, "", 200, "Success")
            /\ posts' = [i \in (DOMAIN posts) \ {post_id} |-> posts[i]]
       ELSE /\ RespondNow(r, "delete", requester, "", post_id, "", 403, "Forbidden")
            /\ posts' = posts
    /\ UNCHANGED <<users, post_seq, user_reactions, followers, notifications, threaded, ads, messages>>

(* -------------------- a notification insert that fails ---------------- *)
\* INSERT INTO notifications raises (sqlite3.OperationalError: database is locked, disk
\* full): the handler ends in a 500 and whatever its connection has not committed is
\* lost with the connection
Fail(r, op) ==
    /\ last' = [NoResponse EXCEPT !.n = last.n + 1, !.op = op, !.user = req[r].user,
                                  !.other = req[r].other, !.post_id = req[r].post_id,
                                  !.emoji = req[r].emoji, !.status = 500, !.body = "error"]
    /\ req' = [req EXCEPT ![r] = Idle]

\* line 746 raises: the edge and the counts were committed at line 742
ReactNotifyFails(r) ==
    /\ req[r].pc = "react_notify"
    /\ Fail(r, "react")
    /\ UNCHANGED <<users, posts, post_seq, user_reactions, followers, notifications, threaded,
                   ads, messages>>

\* line 804 raises: the INSERT INTO followers of line 803 is in the same transaction,
\* which never reaches the commit of line 805
FollowInsertFails(r) ==
    /\ req[r].pc = "follow_insert"
    /\ Fail(r, "follow")
    /\ UNCHANGED <<users, posts, post_seq, user_reactions, followers, notifications, threaded,
                   ads, messages>>

(* ---------------------------- GET /api/posts -------------------------- *)
\* SELECT * FROM posts ORDER BY id DESC; every record gets user_reaction None
ApiPostsGet ==
    [k \in 1..Cardinality(DOMAIN posts) |->
        LET id == NthDesc(DOMAIN posts, k)
        IN [id |-> id, author_email |-> posts[id].author_email,
            reactions |-> posts[id].reactions, user_reaction |-> NONE]]

(* ------------------------ messages, notifications --------------------- *)
\* POST /api/messages: the message and the recipient's notification, one commit
ApiMessagesPost(r, sender, recipient) ==
    /\ CanStart(r)
    /\ messages' = Append(messages, [sender |-> sender, recipient |-> recipient])
    /\ notifications' = Notify(notifications, recipient, MessageText(sender))
    /\ RespondNow(r, "messages", sender, recipient, 0, "", 200, "success")
    /\ UNCHANGED <<users, posts, post_seq, user_reactions, followers, threaded, ads>>

\* GET /api/notifications/<email>:
\* SELECT text,timestamp,seen,id FROM notifications WHERE user_email=? ORDER BY id DESC
ApiNotificationsGet(email) ==
    LET ids == {i \in 1..Len(notifications) : notifications[i].user_email = email}
    IN [k \in 1..Cardinality(ids) |->
           [id |-> NthDesc(ids, k), text |-> notifications[NthDesc(ids, k)].text]]

(* -------------------------- POST /api/update_bio ---------------------- *)
Bios == {"", "hello"}                \* data.get("bio", "")

\* an update without its WHERE clause
UpdateBioOfAll(us, email, bio) == [e \in DOMAIN us |-> [us[e] EXCEPT !.bio = bio]]

\* UPDATE users SET bio=? WHERE email=?
UpdateBio(us, email, bio) ==
    IF email \in DOMAIN us THEN [us EXCEPT ![email].bio = bio] ELSE us

ApiUpdateBio(r, email, bio) ==
    /\ CanStart(r)
    /\ users' = UpdateBio(users, email, bio)
    /\ RespondNow(r, "update_bio", email, bio, 0, "", 200, "success")
    /\ UNCHANGED <<posts, post_seq, user_reactions, followers, notifications, threaded, ads,
                   messages>>

(* -------------------------------- ads --------------------------------- *)
\* the REAL columns (users.earnings, ads.budget) are held in thousandths: 0.01 is 10
Budgets == {-10, 0, 10, 30}      \* float(data.get("budget") or 0)
ImpressionEarnings == 10         \* earnings + 0.01

\* POST /api/ads: INSERT INTO ads (title,owner_email,budget,impressions,clicks)
ApiAdsPost(r, owner, budget) ==
    /\ CanStart(r)
    /\ Len(ads) < MaxAds
    /\ ads' = Append(ads, [owner_email |-> owner, budget |-> budget, impressions |-> 0])
    /\ RespondNow(r, "ads", owner, "", 0, "", 200, "Ad created")
    /\ UNCHANGED <<users, posts, post_seq, user_reactions, followers, notifications, threaded,
                   messages>>

\* UPDATE users SET earnings = earnings + 0.01 WHERE email=?
AddEarnings(us, owner) ==
    IF owner \in DOMAIN us THEN [us EXCEPT ![owner].earnings = @ + ImpressionEarnings] ELSE us

\* a crediting rule that leaves out the author's own views
ImpressionUsersNotSelf(us, ps, post_id, viewer) ==
    IF viewer = PostRow(ps, post_id).author_email THEN us
    ELSE AddEarnings(us, PostRow(ps, post_id).author_email)

\* lines 857-862: the users table after an impression of viewer on an existing post
ImpressionUsers(us, ps, post_id, viewer) ==
    AddEarnings(us, PostRow(ps, post_id).author_email)

\* POST /api/ads/impression: the post's author is credited; no row of ads is read or
\* written
ApiAdsImpression(r, post_id, viewer) ==
    /\ CanStart(r)
    /\ IF PostRow(posts, post_id) # NoRow
       THEN /\ users' = ImpressionUsers(users, posts, post_id, viewer)
            /\ RespondNow(r, "impression", viewer, PostRow(posts, post_id).author_email,
                          post_id, "", 200, "success")
       ELSE /\ users' = users
            /\ RespondNow(r, "impression", viewer, "", post_id, "", 404, "Post not found")
    /\ UNCHANGED <<posts, post_seq, user_reactions, followers, notifications, threaded, ads, messages>>

(* --------------------------- specifications --------------------------- *)
Next ==
    \E r \in Req :
        \/ \E a \in Emails : ApiPostsPost(r, a)
        \/ ApiReactPost(r)
        \/ ApiFollow(r)
        \/ ApiWatch(r)

Spec == Init /\ [][Next]_vars

\* the handlers of one table at a time: posts and reactions, the follow graph, watches
NextReact == \E r \in Req : (\E a \in Emails : ApiPostsPost(r, a)) \/ ApiReactPost(r)
SpecReact == Init /\ [][NextReact]_vars
SpecReactSerial == InitSerial /\ [][NextReact]_vars

\* only the emoji the page's buttons send, from every account
NextReactButtons ==
    \E r \in Req : (\E a \in Emails : ApiPostsPost(r, a)) \/ ReactBy(r, Emails, Buttons)
SpecReactButtons == Init /\ [][NextReactButtons]_vars

\* one account reacting with the buttons, its requests overlapping
NextReactBob == \E r \in Req : ReactBy(r, {Bob}, Buttons)
SpecReactBob == Init /\ [][NextReactBob]_vars
SpecReactBobSerial == InitSerial /\ [][NextReactBob]_vars

NextFollow == \E r \in Req : ApiFollow(r)
SpecFollow == Init /\ [][NextFollow]_vars
SpecFollowSerial == InitSerial /\ [][NextFollow]_vars

NextWatch == \E r \in Req : (\E a \in Emails : ApiPostsPost(r, a)) \/ ApiWatch(r)
SpecWatch == Init /\ [][NextWatch]_vars

\* posts created, reacted to and deleted, one request at a time
NextDelete ==
    \E r \in Req :
        \/ \E a \in Emails : ApiPostsPost(r, a)
        \/ ApiReactPost(r)
        \/ \E u \in Emails, p \in PostIds : DeletePost(r, u, p)
SpecDelete == InitSerial /\ [][NextDelete]_vars

\* ads created and impressions recorded, on Alice's post and on later posts
NextAds ==
    \E r \in Req :
        \/ \E a \in Emails : ApiPostsPost(r, a)
        \/ \E o \in Emails, b \in Budgets : ApiAdsPost(r, o, b)
        \/ \E p \in PostIds, v \in Viewers : ApiAdsImpression(r, p, v)
SpecAds == Init /\ [][NextAds]_vars

\* accounts created and logged into
NextSignup ==
    \E r \in Req :
        \/ \E t \in TypedEmails, pw \in Passwords : ApiSignup(r, "Carol", t, pw)
        \/ \E t \in TypedEmails, pw \in Passwords : ApiLogin(r, t, pw)
SpecSignup == Init /\ [][NextSignup]_vars

\* messages sent, to accounts and to an address without one
NextMessages == \E r \in Req : \E f \in Emails, t \in Recipients : ApiMessagesPost(r, f, t)
SpecMessages == Init /\ [][NextMessages]_vars
\* the same, on a server whose notifications table is already long
SpecInbox == InitBusy /\ [][NextMessages]_vars

\* reactions and follows whose notification insert may fail
NextFaults ==
    \E r \in Req :
        \/ ReactBy(r, {Bob}, Buttons)
        \/ ApiFollow(r)
        \/ ReactNotifyFails(r)
        \/ FollowInsertFails(r)
SpecFaults == Init /\ [][NextFaults]_vars

\* what changes a row of users after signup: watches, impressions, the bio
NextAccount ==
    \E r \in Req :
        \/ ApiWatch(r)
        \/ \E p \in PostIds, v \in Viewers : ApiAdsImpression(r, p, v)
        \/ \E e \in Recipients, b \in Bios : ApiUpdateBio(r, e, b)
SpecAccount == Init /\ [][NextAccount]_vars

\* the three handlers that look a post up by the id they are sent
NextPostOps ==
    \E r \in Req :
        \/ \E a \in Emails : ApiPostsPost(r, a)
        \/ ReactBy(r, {Bob}, Buttons)
        \/ ApiWatch(r)
        \/ \E p \in PostIds, v \in Viewers : ApiAdsImpression(r, p, v)
SpecPostOps == Init /\ [][NextPostOps]_vars

(* ------------------------------ properties ---------------------------- *)
Quiescent == InFlight = {}
ReactionsOn(p) == {x \in user_reactions : x.post_id = p}
Reactors(p) == {x.user_email : x \in ReactionsOn(p)}
WatchesOf(u) == {i \in 1..Len(notifications) : /\ notifications[i].user_email = u
                                                /\ \E v \in Viewers : notifications[i].text = WatchText(v)}
SelfWatchesOf(u) == {i \in WatchesOf(u) : notifications[i].text = WatchText(u)}

\* an address trimmed of surrounding whitespace and lowercased
Canonical(cs) == Lower(Strip(cs))
\* a step in which a signup, a login is answered
SignupStep == last'.n = last.n + 1 /\ last'.op = "signup"
LoginStep == last'.n = last.n + 1 /\ last'.op = "login"

\* the accounts for which is_following(x, b) answers true
FollowersOf(b) == {x \in Emails : ApiIsFollowing(x, b)}

\* the ads an impression may charge: those whose budget is above the unit cost 0.01
\* (10 thousandths)
EligibleAds == {i \in 1..Len(ads) : ads[i].budget > 10}
\* a step in which an impression on an existing post is answered
ImpressionStep ==
    /\ last'.n = last.n + 1 /\ last'.op = "impression" /\ last'.post_id \in DOMAIN posts

\* C1: an account never holds two reaction rows on one post, and the row of (A,P)
\* changes only in the write of a react(A,P,e) call whose e differed from the edge it
\* had read, and then becomes exactly e; a call that found its own emoji changes no row.
C1_OneEdgeLatestEmoji ==
    [][ /\ \A u \in Emails, p \in PostIds :
              /\ Cardinality(ReactionRows(user_reactions', u, p)) =< 1
              /\ ReactionRows(user_reactions', u, p) # ReactionRows(user_reactions, u, p)
                   => \E r \in Req :
                        /\ req[r].pc = "react_write" /\ req'[r].pc # "react_write"
                        /\ req[r].user = u /\ req[r].post_id = p
                        /\ req[r].prev_emoji # req[r].emoji
                        /\ ReactionRows(user_reactions', u, p) =
                             {[user_email |-> u, post_id |-> p, emoji |-> req[r].emoji]}
        /\ \A r \in Req : req[r].pc = "react_write" /\ req'[r].pc # "react_write"
              => ReactionRows(user_reactions', req[r].user, req[r].post_id) =
                   {[user_email |-> req[r].user, post_id |-> req[r].post_id,
                     emoji |-> req[r].emoji]}
        /\ \A r \in Req : req[r].pc = "react_prev" /\ req'[r].pc = "idle"
              => user_reactions' = user_reactions ]_vars

\* C1 witness: Bob reacted thumbs and then heart to Alice's post and holds heart alone
C1_Witness ==
    /\ Len(notifications) = 2
    /\ notifications[1].text = ReactionText("thumbs")
    /\ notifications[2].text = ReactionText("heart")
    /\ ReactionRows(user_reactions, Bob, 1) = {[user_email |-> Bob, post_id |-> 1, emoji |-> "heart"]}

\* C2: between completed calls, the counts of every post add up to the number of
\* accounts that hold a reaction edge to it.
C2_SumEqualsEdges ==
    Quiescent => \A p \in DOMAIN posts :
                    SumReactions(posts[p].reactions) = Cardinality(Reactors(p))

\* C3: with one request at a time, a react(A,P,e) call that directly follows a
\* successful react(A,P,e) returns the counts the first call returned, and these are
\* still the stored counts of P.
C3_ReactTwiceIdempotent ==
    [][ ( /\ last'.n = last.n + 1
          /\ last.op = "react" /\ last.status = 200
          /\ last'.op = "react" /\ last'.status = 200
          /\ last'.user = last.user /\ last'.post_id = last.post_id
          /\ last'.emoji = last.emoji )
        => /\ last'.body = last.body
           /\ posts'[last.post_id].reactions = last.body ]_vars

\* C3 witness: a react call was answered on the same-emoji path of an edge that exists
C3_Witness ==
    /\ last.op = "react" /\ last.status = 200 /\ ~last.wrote
    /\ ReactionRows(user_reactions, last.user, last.post_id) =
          {[user_email |-> last.user, post_id |-> last.post_id, emoji |-> last.emoji]}
    /\ Get(posts[last.post_id].reactions, last.emoji) = 1

\* C4: once the calls have completed, no increment is lost: every emoji count of a
\* post is at least the number of accounts holding that emoji on it.
C4_NoLostIncrement ==
    Quiescent => \A p \in DOMAIN posts : \A e \in EmojiArgs :
                    Get(posts[p].reactions, e)
                        >= Cardinality({x \in ReactionsOn(p) : x.emoji = e})

\* C5: when only Bob reacts, whatever the overlap of his calls, each post ends with at
\* most one row of his and counts in which he contributes exactly that row.
C5_PairSerialized ==
    Quiescent => \A p \in DOMAIN posts :
                    /\ Cardinality(ReactionRows(user_reactions, Bob, p)) =< 1
                    /\ SumReactions(posts[p].reactions)
                         = Cardinality(ReactionRows(user_reactions, Bob, p))

\* C6: the follower count of the monetization view is the number of accounts X for
\* which is_following(X, B) answers true.
C6_FollowerCountIsFollowing ==
    \A b \in Emails :
        MonetizationFollowers(b) = Cardinality({x \in Emails : ApiIsFollowing(x, b)})

\* the toggle half of C6, with one request at a time: a follow(A,B) that directly
\* follows a follow(A,B) leaves the pair as it was before the first of the two
FollowToggleSerial ==
    [][ ( /\ last'.n = last.n + 1 /\ last.op = "follow" /\ last'.op = "follow"
          /\ last'.user = last.user /\ last'.other = last.other )
        => /\ last'.body # last.body
           /\ (last.body = "followed" => FollowerRows(followers', last.other, last.user) = 0)
           /\ (last.body = "unfollowed" => FollowerRows(followers', last.other, last.user) = 1)
      ]_vars

\* C7: follow(A,A) is refused and no account follows itself.
C7_NoSelfFollow ==
    /\ \A a \in Emails : FollowerRows(followers, a, a) = 0
    /\ (last.op = "follow" /\ last.user = last.other) => last.status # 200

\* C8: there is at most one follow row per (follower, target) pair.
C8_OneFollowRow ==
    \A t \in Emails, f \in Emails : FollowerRows(followers, t, f) =< 1

\* C9: a deletePost by anyone but the author is answered Forbidden and leaves the
\* posts as they were, and a post leaves the table only in a successful deletePost of
\* its author.
C9_DeleteOnlyByAuthor ==
    [][ /\ ( /\ last'.n = last.n + 1 /\ last'.op = "delete"
             /\ last'.post_id \in DOMAIN posts
             /\ last'.user # posts[last'.post_id].author_email )
           => (last'.status = 403 /\ last'.body = "Forbidden" /\ posts' = posts)
        /\ \A p \in DOMAIN posts : p \notin DOMAIN posts'
           => /\ last'.n = last.n + 1 /\ last'.op = "delete" /\ last'.status = 200
              /\ last'.post_id = p /\ last'.user = posts[p].author_email ]_vars

\* C9 witness: Bob was refused the deletion of Alice's post, which is still stored
C9_Witness ==
    /\ last.op = "delete" /\ last.status = 403 /\ last.user = Bob
    /\ last.post_id \in DOMAIN posts /\ posts[last.post_id].author_email = Alice

C11_SelfWatchUnchanged ==
    [][ \A r \in Req :
            (req[r].pc = "idle" /\ req'[r].pc = "watch_select" /\ req'[r].user = req'[r].other)
            => users'[req'[r].other].watch_hours = users[req'[r].other].watch_hours ]_vars

\* C12: an impression on an existing post, when some ad is eligible, takes exactly one
\* eligible ad, adds 1 to its impressions and takes 0.01 (10 thousandths) from its
\* budget, credits the post's author with 0.005 (5 thousandths), and leaves every other
\* ad and account as it was.
C12_ImpressionChargesOneAd ==
    [][ (ImpressionStep /\ EligibleAds # {})
        => /\ last'.status = 200
           /\ \E i \in EligibleAds :
                 ads' = [ads EXCEPT ![i].impressions = @ + 1, ![i].budget = @ - 10]
           /\ users' = [users EXCEPT ![posts[last'.post_id].author_email].earnings = @ + 5]
      ]_vars

\* C13: an impression on an existing post, when no ad is eligible, answers success
\* and changes no ad and no account.
C13_NoEligibleAdNoOp ==
    [][ (ImpressionStep /\ EligibleAds = {})
        => (last'.status = 200 /\ ads' = ads /\ users' = users) ]_vars

\* C14: the budget of every ad is never negative, never grows, and changes only in a
\* step that answers an impression.
C14_BudgetNonNegativeDecreasing ==
    /\ [](\A i \in 1..Len(ads) : ads[i].budget >= 0)
    /\ [][ \A i \in 1..Len(ads) :
              /\ ads'[i].budget =< ads[i].budget
              /\ ads'[i].budget # ads[i].budget
                   => (last'.n = last.n + 1 /\ last'.op = "impression") ]_vars

\* C15: the monetization view of an account says Eligible exactly when the account
\* has at least 5000 followers and at least 1000000 watch_hours, says Not Eligible for
\* an unknown account, and reports as followers the number of accounts following it.
C15_EligibilityView ==
    \A a \in Emails \cup {Nobody} :
        LET m == ApiMonetization(a)
        IN IF a \in DOMAIN users
           THEN /\ m.followers = Cardinality(FollowersOf(a))
                /\ (m.status = "Eligible")
                     <=> (Cardinality(FollowersOf(a)) >= 5000
                          /\ users[a].watch_hours >= 1000000)
           ELSE m.status = "Not Eligible"

\* the status half of C15 on its own, at and around the two thresholds
MonetizationStatusAtThresholds ==
    \A f \in {0, 4999, 5000, 5001}, w \in {0, 999999, 1000000, 1000001} :
        (MonetizationStatus(f, w) = "Eligible") <=> (f >= 5000 /\ w >= 1000000)

\* C16: no two accounts have e-mails that are equal once trimmed and lowercased; a
\* signup stores the trimmed, lowercased address; a login finds the account of the
\* trimmed, lowercased address.
C16_NormalizedEmailsUnique ==
    /\ [](\A a, b \in DOMAIN users :
              Canonical(users[a].email) = Canonical(users[b].email) => a = b)
    /\ [][ /\ (SignupStep /\ last'.status = 200)
              => /\ Str(Canonical(last'.raw)) \in DOMAIN users'
                 /\ users'[Str(Canonical(last'.raw))].email = Canonical(last'.raw)
                 /\ DOMAIN users' = DOMAIN users \cup {Str(Canonical(last'.raw))}
           /\ LoginStep
              => (last'.status = 200
                    <=> /\ Str(Canonical(last'.raw)) \in DOMAIN users
                        /\ users[Str(Canonical(last'.raw))].password = last'.password)
         ]_vars

\* C16 witness: the account c@x exists and a login that typed its address with
\* capitals and surrounding whitespace was accepted
C16_Witness ==
    /\ last.op = "login" /\ last.status = 200
    /\ last.raw # Canonical(last.raw)
    /\ last.user = Str(CarolChars) /\ last.user \in DOMAIN users

\* C17: a signup whose address, trimmed and lowercased, belongs to an account is
\* refused (with "User exists" when a password was given) and leaves the users table,
\* every field of every account, as it was.
C17_DuplicateSignupRefused ==
    [][ (SignupStep /\ Str(Canonical(last'.raw)) \in DOMAIN users)
        => /\ last'.status = 400
           /\ Truthy(last'.password) => last'.body = "User exists"
           /\ users' = users ]_vars

\* C17 witness: a signup for Alice's address, typed with a capital and with another
\* password, was refused and Alice's row is the seeded one
C17_Witness ==
    /\ last.op = "signup" /\ last.status = 400 /\ last.body = "User exists"
    /\ last.user = Alice /\ last.raw # AliceChars /\ last.password = "pw"
    /\ users[Alice] = NewUser("Alice", AliceChars, "alice")

\* C18: the password column of an account never holds the secret that was given at
\* its signup, and no signup or login answer carries a password.
C18_NoPlaintextCredential ==
    /\ (last.op = "signup" /\ last.status = 200)
          => users[last.user].password # last.password
    /\ (last.op \in {"signup", "login"} /\ last.status = 200)
          => "password" \notin DOMAIN last.body

\* C19: a react call that writes the edge of an account other than the post's author
\* goes on to append exactly one notification, addressed to the author and naming the
\* emoji; a call of the author itself, and a call that found its emoji already set,
\* append none; and nothing else appends a notification.
C19_ReactNotifiesAuthorOnce ==
    [][ /\ \A r \in Req :
              /\ (req[r].pc = "react_write" /\ req'[r].pc # "react_write")
                   => /\ notifications' = notifications
                      /\ req'[r].pc = IF req[r].user # posts[req[r].post_id].author_email
                                      THEN "react_notify" ELSE "idle"
              /\ (req[r].pc = "react_notify" /\ req'[r].pc # "react_notify")
                   => /\ req'[r].pc = "idle"
                      /\ req[r].user # posts[req[r].post_id].author_email
                      /\ notifications' =
                            Append(notifications,
                                   [user_email |-> posts[req[r].post_id].author_email,
                                    text |-> ReactionText(req[r].emoji)])
              /\ (req[r].pc = "react_prev" /\ req'[r].pc = "idle")
                   => notifications' = notifications
        /\ notifications' # notifications
              => \E r \in Req : req[r].pc = "react_notify" /\ req'[r].pc = "idle" ]_vars

\* C19 witness: Bob and Alice have both reacted to Alice's post and the one
\* notification there is tells Alice of Bob's reaction
C19_Witness ==
    /\ Quiescent
    /\ Reactors(1) = {Alice, Bob}
    /\ Len(notifications) = 1
    /\ notifications[1].user_email = Alice
    /\ \E x \in ReactionRows(user_reactions, Bob, 1) :
            notifications[1].text = ReactionText(x.emoji)

\* C20: a follow(A,B) call that inserts the edge answers "followed", leaves
\* is_following(A,B) true and appends exactly one notification, to B, with the text
\* "<A> followed you"; a call that deletes the edge answers "unfollowed" and appends
\* no notification.
C20_FollowNotifiesTarget ==
    [][ \A r \in Req :
            /\ (req[r].pc = "follow_insert" /\ req'[r].pc = "idle")
                 => /\ last'.status = 200 /\ last'.body = "followed"
                    /\ FollowerRows(followers', req[r].other, req[r].user) > 0
                    /\ notifications' =
                          Append(notifications,
                                 [user_email |-> req[r].other,
                                  text |-> req[r].user \o " followed you"])
            /\ (req[r].pc = "follow_delete" /\ req'[r].pc = "idle")
                 => /\ last'.status = 200 /\ last'.body = "unfollowed"
                    /\ notifications' = notifications ]_vars

\* C21: the notifications stored are never removed or rewritten, and one is appended
\* only by a react call notifying the author, a follow call inserting the edge, or a
\* message being sent.
C21_NotificationsAppendOnly ==
    [][ /\ Len(notifications') >= Len(notifications)
        /\ \A i \in 1..Len(notifications) : notifications'[i] = notifications[i]
        /\ notifications' # notifications
              => \/ \E r \in Req : req[r].pc = "react_notify" /\ req'[r].pc = "idle"
                 \/ \E r \in Req : req[r].pc = "follow_insert" /\ req'[r].pc = "idle"
                 \/ (last'.n = last.n + 1 /\ last'.op = "messages") ]_vars

\* C22: when the notification insert of a react or follow call fails, what the call
\* wrote stays: the failing step of a react call takes back no edge and no count, and
\* after the failing step of a follow call the edge of the call is stored.
C22_WriteSurvivesLostNotification ==
    [][ \A r \in Req :
            /\ (req[r].pc = "react_notify" /\ req'[r].pc = "idle" /\ last'.status = 500)
                 => /\ user_reactions' = user_reactions /\ posts' = posts
                    /\ ReactionRows(user_reactions', req[r].user, req[r].post_id) # {}
            /\ (req[r].pc = "follow_insert" /\ req'[r].pc = "idle" /\ last'.status = 500)
                 => FollowerRows(followers', req[r].other, req[r].user) > 0 ]_vars

\* the rows of a notifications listing belong to the account asked for and come
\* newest first
ListingOfAccount(a) ==
    LET l == ApiNotificationsGet(a)
    IN /\ \A k \in 1..Len(l) : notifications[l[k].id].user_email = a
       /\ \A k \in 1..(Len(l) - 1) : l[k].id > l[k + 1].id

\* C23: the notifications listing of an account holds only notifications addressed to
\* it, newest first, and never more than 20 of them.
C23_NotificationsPage ==
    \A a \in Recipients : ListingOfAccount(a) /\ Len(ApiNotificationsGet(a)) =< 20

\* the part of C23 that does not depend on the page size
NotificationsOwnNewestFirst == \A a \in Recipients : ListingOfAccount(a)

\* the posts listing holds every stored post once, by strictly descending id
FeedAllNewestFirst ==
    LET l == ApiPostsGet
    IN /\ Len(l) = Cardinality(DOMAIN posts)
       /\ {l[k].id : k \in 1..Len(l)} = DOMAIN posts
       /\ \A k \in 1..(Len(l) - 1) : l[k].id > l[k + 1].id

\* C24: the posts listing holds every stored post, newest first, and the user_reaction
\* of each record, in the listing a viewer gets, is the emoji of the viewer's reaction
\* row on that post (None when the viewer has none).
C24_FeedShowsOwnReaction ==
    /\ FeedAllNewestFirst
    /\ \A viewer \in Emails : \A k \in 1..Len(ApiPostsGet) :
          ApiPostsGet[k].user_reaction = ApiUserReaction(viewer, ApiPostsGet[k].id)

\* C25: every stored notification is addressed to an existing account.
C25_NotificationTargetsExist ==
    \A i \in 1..Len(notifications) : notifications[i].user_email \in DOMAIN users

\* C26: when a react(A,P,e2) call writes while A holds e1 # e2 on P, the count of e1
\* goes down by 1 (not below 0) and the count of e2 up by 1; when A holds nothing,
\* the count of e2 goes up by 1; every other count of P, every other post and every
\* reaction row of another account or post stays as it was.
C26_ReactChangesTwoCounts ==
    [][ \A r \in Req :
            LET u == req[r].user
                p == req[r].post_id
                e2 == req[r].emoji
                held == {x.emoji : x \in ReactionRows(user_reactions, u, p)}
            IN ( /\ req[r].pc = "react_write" /\ req'[r].pc # "react_write"
                 /\ e2 \notin held )
               => /\ \A e1 \in held : Get(posts'[p].reactions, e1)
                                         = Max0(Get(posts[p].reactions, e1) - 1)
                  /\ Get(posts'[p].reactions, e2) = Get(posts[p].reactions, e2) + 1
                  /\ \A e \in (DOMAIN posts[p].reactions \cup DOMAIN posts'[p].reactions)
                                \ (held \cup {e2}) :
                        Get(posts'[p].reactions, e) = Get(posts[p].reactions, e)
                  /\ \A q \in DOMAIN posts \ {p} : posts'[q] = posts[q]
                  /\ {x \in user_reactions' : x.user_email # u \/ x.post_id # p}
                       = {x \in user_reactions : x.user_email # u \/ x.post_id # p} ]_vars

\* C27: watch_hours and earnings of every account are never negative and never go
\* down, no account disappears, and an update_bio call sets the bio of the account it
\* names and changes nothing else in users.
C27_CountersMonotoneBioOnly ==
    /\ [](\A e \in DOMAIN users : users[e].watch_hours >= 0 /\ users[e].earnings >= 0)
    /\ [][ /\ \A e \in DOMAIN users :
                /\ e \in DOMAIN users'
                /\ users'[e].watch_hours >= users[e].watch_hours
                /\ users'[e].earnings >= users[e].earnings
           /\ (last'.n = last.n + 1 /\ last'.op = "update_bio")
                => users' = IF last'.user \in DOMAIN users
                            THEN [users EXCEPT ![last'.user].bio = last'.other]
                            ELSE users ]_vars

\* C27 witness: Bob has set his bio after Alice earned watch hours and earnings, and
\* Alice's row still has them and her empty bio
C27_Witness ==
    /\ last.op = "update_bio" /\ last.user = Bob /\ last.other = "hello"
    /\ users[Bob].bio = "hello" /\ users[Alice].bio = ""
    /\ users[Alice].watch_hours = 1 /\ users[Alice].earnings = ImpressionEarnings
    /\ users[Bob].watch_hours = 0 /\ users[Bob].earnings = 0

\* C28: the credit of an impression does not depend on the viewer: from any state,
\* impressions on the same post by any two viewers (the author and the empty viewer
\* included) leave the same users table, and the impression that is answered leaves
\* the table every viewer would have left.
C28_CreditIgnoresViewer ==
    /\ [](\A p \in DOMAIN posts : \A v1 \in Viewers, v2 \in Viewers :
              ImpressionUsers(users, posts, p, v1) = ImpressionUsers(users, posts, p, v2))
    /\ [][ (ImpressionStep /\ last'.status = 200)
            => \A v \in Viewers : users' = ImpressionUsers(users, posts, last'.post_id, v)
         ]_vars

\* C28 witness: after two impressions on Alice's post, the last one by Alice herself,
\* she has been credited twice
C28_Witness ==
    /\ last.op = "impression" /\ last.status = 200 /\ last.n = 2
    /\ last.user = Alice /\ last.other = Alice
    /\ users[Alice].earnings = 2 * ImpressionEarnings

\* C29: a react(A,P,e) call that finds A's row on P already holding e answers at once
\* with success, and the step that answers it changes no table: no reaction row, no
\* count, no notification.
C29_SameEmojiChangesNothing ==
    [][ \A r \in Req :
            /\ ( /\ req[r].pc = "react_prev" /\ req'[r].pc # "react_prev"
                 /\ ReactionRows(user_reactions, req[r].user, req[r].post_id)
                      = {[user_email |-> req[r].user, post_id |-> req[r].post_id,
                          emoji |-> req[r].emoji]} )
               => (req'[r].pc = "idle" /\ last'.n = last.n + 1 /\ last'.status = 200)
            /\ (req[r].pc = "react_prev" /\ req'[r].pc = "idle")
               => UNCHANGED <<users, posts, post_seq, user_reactions, followers,
                              notifications, ads, messages>> ]_vars

\* C29 witness: Bob has sent the same reaction to Alice's post twice; the second call
\* was answered without a write and Alice has the one notification of the first
C29_Witness ==
    /\ Quiescent
    /\ last.op = "react" /\ last.status = 200 /\ ~last.wrote /\ last.n = 2
    /\ last.user = Bob /\ last.post_id = 1
    /\ ReactionRows(user_reactions, Bob, 1) =
          {[user_email |-> Bob, post_id |-> 1, emoji |-> last.emoji]}
    /\ SumReactions(posts[1].reactions) = 1
    /\ Len(notifications) = 1

\* C30: a react, watch or impression call on a post id that is not stored is answered
\* 404 in the step that receives it, and that step changes no table; no call on such
\* an id gets any further.
C30_MissingPostNotFound ==
    [][ /\ ( /\ last'.n = last.n + 1
             /\ last'.op \in {"react", "watch", "impression"}
             /\ last'.post_id \notin DOMAIN posts )
           => /\ last'.status = 404
              /\ UNCHANGED <<users, posts, post_seq, user_reactions, followers,
                             notifications, ads, messages, req>>
        /\ \A r \in Req : (req[r].pc = "idle" /\ req'[r].pc # "idle")
              => req'[r].post_id \in DOMAIN posts ]_vars

\* C30 witness: three calls on a missing post have been answered 404, the last a
\* reaction, and the store is the seeded one
C30_Witness ==
    /\ last.n = 3 /\ last.op = "react" /\ last.status = 404 /\ last.post_id \notin DOMAIN posts
    /\ user_reactions = {} /\ notifications = <<>>
    /\ \A e \in Emails : users[e].watch_hours = 0 /\ users[e].earnings = 0
    /\ posts[1].reactions = DefaultReactions
====
